---- MODULE Spec2Model ----
(***************************************************************************)
(* Ingestion pipeline of the analytics dashboard backend: the Dataset      *)
(* record store, the stored bytes, the upload / re-process / duplicate /   *)
(* delete handlers and the background ingestion jobs, in the three storage *)
(* variants the repository carries (local disk, buffer + Cloudinary,       *)
(* disk + Cloudinary).                                                     *)
(***************************************************************************)
EXTENDS Integers, Sequences, FiniteSets, TLC

\* ---------------------------------------------------------------- bounds
MaxDatasets == 2
MaxUploads == 1
MaxReqs == 2
MaxClock == 1

Ids == 1..MaxDatasets
Reqs == 1..MaxReqs

\* One job per upload and one per accepted processFile request.
UploadJob(d) == d
ProcessJob(r) == MaxDatasets + r
JobIds == 1..(MaxDatasets + MaxReqs)

\* ------------------------------------------------------------ vocabulary
Variants == {"local", "buffer", "disk"}
FileTypes == {"csv", "json", "excel", "other"}
Contents == {"good", "malformed"}
Terminal == {"completed", "failed"}

\* Error messages that reach metadata.errorMessage
MsgUnsupported == "Unsupported file type"
MsgParse == "Unexpected token"
MsgNoFile == "ENOENT: no such file or directory"
MsgHttp == "HTTP 404"

VARIABLES
  variant,    \* which of the three controller variants is deployed
  datasets,   \* the Dataset collection: [Ids -> record]
  nextId,     \* ObjectIds are never reused: the next id to hand out
  storage,    \* stored bytes per locator: "absent" or the kind of content
  jobs,       \* background ingestion jobs that are running (or were lost)
  reqs,       \* processFile requests between findOne and save
  response,   \* the answer the latest processFile request got
  dup,        \* the duplicateDataset request in flight (its loaded original)
  now,        \* wall clock, the value "new Date()" yields
  upl,        \* the latest POST /api/upload request and what the route made of it
  gen,        \* the generateAIInsight request in flight, and its answer
  insights,   \* the Insight collection, in order of creation
  sample,     \* a parsed file handed to schema inference
  inferred,   \* what schema inference returned for it
  detected,   \* values handed to detectType, and the tags it gave them
  doc,        \* a JSON document as JSON.parse returns it
  scanned,    \* the rows processJSON went through for the document
  preview,    \* what readJSONPreview returned for the document
  attempts,   \* runs of the disk variant's processFileAsync, step by step
  requestCounts,  \* the Map of rateLimitByUser: an entry per user id
  rate        \* the rate limiter's parameters and its latest answer

vars == <<variant, datasets, nextId, storage, jobs, reqs, response, dup, now,
          upl, gen, insights, sample, inferred, detected, doc, scanned,
          preview, attempts, requestCounts, rate>>

\* The state of the units that are checked on their own.
units == <<detected, doc, scanned, preview, attempts, requestCounts, rate>>

\* The state of the request pipelines next to the ingestion state machine.
aux == <<upl, gen, insights, sample, inferred, units>>

\* No file is being inferred.
NoSample == [format |-> "none", shape |-> "none", headers |-> <<>>, rows |-> <<>>]
NoResult == [done |-> FALSE, columns |-> <<>>, rowCount |-> 0]

\* detectType has been given nothing.
NoDetect == [done |-> FALSE, values |-> <<>>, tags |-> <<>>]

\* No JSON document has been read.
NoDoc == [root |-> "none", items |-> <<>>, props |-> <<>>]
NotScanned == [done |-> FALSE, rows |-> <<>>]
NoPreview == [done |-> FALSE, limit |-> 0, rows |-> <<>>]

\* A run of processFileAsync that has not been started.
MaxAttempts == 2
NoAttempt ==
  [pc |-> "idle", fileType |-> "other", temp |-> "none", error |-> "none",
   written |-> "none"]

\* requestCounts.get(userId) of a user the Map holds no entry for.
MaxUsers == 2
NoEntry == [held |-> FALSE, count |-> 0, resetTime |-> 0]
\* The limiter before rateLimitByUser(maxRequests, windowMs) was called;
\* passed counts, per user, the requests passed on since the user's window
\* began, opened the windows the user has had.
NoLimiter ==
  [maxRequests |-> 0, windowMs |-> 0, user |-> 0, answer |-> "none",
   passed |-> [u \in (1..MaxUsers) |-> 0], opened |-> [u \in (1..MaxUsers) |-> 0]]

\* The units that are checked on their own, before anything was handed to
\* them.
UnitsAtRest ==
  /\ detected = NoDetect
  /\ doc = NoDoc
  /\ scanned = NotScanned
  /\ preview = NoPreview
  /\ attempts = [a \in (1..MaxAttempts) |-> NoAttempt]
  /\ requestCounts = [u \in (1..MaxUsers) |-> NoEntry]
  /\ rate = NoLimiter

\* No generateAIInsight request is being handled.
IdleGen == [pc |-> "idle", ds |-> 0, seen |-> "none", answer |-> "none"]

\* No upload request has been received.
NoUpload == [ext |-> <<>>, mime |-> "none", size |-> 0, verdict |-> "none",
             tempFile |-> "none"]

\* A slot of the collection that holds no document.
NoRecord ==
  [exists |-> FALSE, fileUrl |-> 0, fileType |-> "other", columns |-> <<>>,
   rowCount |-> 0, processingStatus |-> "pending", errorMessage |-> "",
   lastModified |-> 0]

\* Defaults of the schema: processingStatus 'pending', errorMessage ''.
NewRecord(url, type, cols, rows, status, t) ==
  [exists |-> TRUE, fileUrl |-> url, fileType |-> type, columns |-> cols,
   rowCount |-> rows, processingStatus |-> status, errorMessage |-> "",
   lastModified |-> t]

IdleReq == [pc |-> "idle", ds |-> 0, seen |-> "none"]

\* A request that has been answered (or was cut off by a crash).
DoneReq == [pc |-> "done", ds |-> 0, seen |-> "none"]
IdleDup == [pc |-> "idle", snap |-> NoRecord]

\* A job that has not been started.
FreeJob ==
  [ds |-> 0, origin |-> "none", loc |-> 0, fileType |-> "other",
   buffer |-> "none", pc |-> "free", outcome |-> "none"]

\* A job that has returned: nothing of it is left in memory.
DoneJob == [FreeJob EXCEPT !.pc = "done"]

\* The uploads admitted so far.
Uploads == {d \in Ids : jobs[UploadJob(d)].pc # "free"}

\* What schema inference yields for well-formed bytes.
ParseResult == [columns |-> <<"a">>, rowCount |-> 1]

Active(j) == jobs[j].pc \in {"fetch", "write"}

Init ==
  /\ variant \in Variants
  /\ datasets = [d \in Ids |-> NoRecord]
  /\ nextId = 1
  /\ storage = [l \in Ids |-> "absent"]
  /\ jobs = [j \in JobIds |-> FreeJob]
  /\ reqs = [r \in Reqs |-> IdleReq]
  /\ response = "none"
  /\ dup = IdleDup
  /\ now = 0
  /\ upl = NoUpload
  /\ gen = IdleGen
  /\ insights = <<>>
  /\ sample = NoSample
  /\ inferred = NoResult
  /\ UnitsAtRest

\* A job as started by its caller, before it has fetched anything.
NewJob(d, origin, loc, type, buf) ==
  [ds |-> d, origin |-> origin, loc |-> loc, fileType |-> type,
   buffer |-> buf, pc |-> "fetch", outcome |-> "none"]

\* What a starting job holds of the file before its caller yields. In the
\* buffer variant uploadFile passes req.file.buffer. On the local disk the
\* read is issued by the call itself (createReadStream and fs.readFile open
\* the path at once, XLSX.readFile reads synchronously), so the job works on
\* the file as it is when the job starts. The disk variant and
\* processFileFromUrl download later.
HeldAtStart(origin, onDisk, inRequest) ==
  CASE variant = "local" -> onDisk
    [] variant = "buffer" /\ origin = "uploadFile" -> inRequest
    [] OTHER -> "none"

\* The job function a handler starts: processFileAsync in the local and the
\* disk variant; in the buffer variant uploadFile runs processFileFromBuffer
\* on the request's buffer and processFile runs processFileFromUrl.
JobFn(job) ==
  IF variant # "buffer" THEN "processFileAsync"
  ELSE IF job.origin = "uploadFile" THEN "processFileFromBuffer"
  ELSE "processFileFromUrl"

\* uploadFile: create the record as pending and start the job at once.
uploadFile(type, content) ==
  /\ nextId <= MaxDatasets
  /\ Cardinality(Uploads) < MaxUploads
  /\ variant # "local" => type # "other"
  /\ datasets' = [datasets EXCEPT ![nextId] =
                    NewRecord(nextId, type, <<>>, 0, "pending", now)]
  /\ storage' = [storage EXCEPT ![nextId] = content]
  /\ jobs' = [jobs EXCEPT ![UploadJob(nextId)] =
                NewJob(nextId, "uploadFile", nextId, type,
                       HeldAtStart("uploadFile", content, content))]
  /\ nextId' = nextId + 1
  /\ UNCHANGED <<variant, reqs, response, dup, now>>

\* The switch on fileType that every job variant runs on the fetched bytes:
\* the format parser's result, or the message of the error it throws.
Parse(type, bytes) ==
  IF type \notin {"csv", "json", "excel"} THEN MsgUnsupported
  ELSE IF bytes = "malformed" THEN MsgParse
  ELSE "ok"

\* processCSV on the local disk: createReadStream(path).pipe(csv()) registers
\* its error handler on the parser only, so a file that cannot be opened
\* raises an 'error' event nobody handles and the process goes down.
UnhandledStreamError(job) ==
  /\ variant = "local"
  /\ job.fileType = "csv"
  /\ job.buffer = "absent"

\* Outcomes of the fetch-and-parse part of a job: "ok", or the message of
\* the error that reaches the job's catch block.
FetchOutcomes(job) ==
  CASE JobFn(job) = "processFileFromBuffer" ->
         {Parse(job.fileType, job.buffer)}
    [] JobFn(job) = "processFileFromUrl" \/ variant = "disk" ->
         \* the download can fail for reasons of its own, and always fails
         \* once the bytes are gone; after it, the switch on fileType
         {MsgHttp} \cup
         (IF storage[job.loc] = "absent" THEN {}
          ELSE {Parse(job.fileType, storage[job.loc])})
    [] OTHER ->
         \* local disk: the switch comes first, then the file is read
         IF job.fileType \notin {"csv", "json", "excel"} THEN {MsgUnsupported}
         ELSE IF job.buffer = "absent" THEN {MsgNoFile}
         ELSE {Parse(job.fileType, job.buffer)}

\* Whether the job's failure update carries metadata.lastModified: the catch
\* of processFileFromUrl (reached by a failed download) sends none.
Stamped(job) ==
  ~(JobFn(job) = "processFileFromUrl" /\ job.outcome = MsgHttp)

\* A job the crash of the process took away.
LostJob == [FreeJob EXCEPT !.pc = "crashed"]

\* A job's parameters are dead once the bytes have been fetched and parsed.
AfterFetch(job, msg) ==
  [job EXCEPT !.pc = "write", !.outcome = msg, !.loc = 0,
              !.fileType = "other", !.buffer = "none"]

\* The job's fetch and parse, up to the await of its status write.
JobFetch(j) ==
  /\ jobs[j].pc = "fetch"
  /\ ~UnhandledStreamError(jobs[j])
  /\ \E msg \in FetchOutcomes(jobs[j]) :
       jobs' = [jobs EXCEPT ![j] = AfterFetch(jobs[j], msg)]
  /\ UNCHANGED <<variant, datasets, nextId, storage, reqs, response, dup, now, aux>>

\* The unhandled stream error ends the Node process: every task that lives
\* in memory is gone (jobs awaiting a fetch or a write, handlers between two
\* awaits); the database and the stored files stay as they are, and the
\* restarted server serves requests again.
JobCrash(j) ==
  /\ jobs[j].pc = "fetch"
  /\ UnhandledStreamError(jobs[j])
  /\ jobs' = [k \in JobIds |-> IF Active(k) THEN LostJob ELSE jobs[k]]
  /\ reqs' = [r \in Reqs |-> IF reqs[r].pc = "found" THEN DoneReq ELSE reqs[r]]
  /\ response' = "none"
  /\ dup' = IdleDup
  /\ UNCHANGED <<variant, datasets, nextId, storage, now, aux>>

\* The update of the success branch: findByIdAndUpdate(id, {columns, rowCount,
\* processingStatus: completed, lastModified}).
CompletedUpdate(rec, res, t) ==
  [rec EXCEPT !.columns = res.columns, !.rowCount = res.rowCount,
              !.processingStatus = "completed", !.lastModified = t]

\* The update of the catch branch; processFileFromUrl's own catch sends no
\* lastModified (stamped = FALSE).
FailedUpdate_Reset(rec, msg, stamped, t) ==
  [rec EXCEPT !.processingStatus = "failed", !.errorMessage = msg,
              !.lastModified = IF stamped THEN t ELSE @,
              !.columns = <<>>, !.rowCount = 0]
FailedUpdate(rec, msg, stamped, t) ==
  [rec EXCEPT !.processingStatus = "failed", !.errorMessage = msg,
              !.lastModified = IF stamped THEN t ELSE @]

\* Dataset.findByIdAndUpdate(id, update) without the upsert option: the
\* collection after the call. It matches nothing when the record has been
\* deleted meanwhile.
findByIdAndUpdate_Upsert(d, updated) ==
  [datasets EXCEPT ![d] = [updated EXCEPT !.exists = TRUE]]
findByIdAndUpdate(d, updated) ==
  IF datasets[d].exists THEN [datasets EXCEPT ![d] = updated] ELSE datasets

\* The job's terminal findByIdAndUpdate.
JobWrite(j) ==
  /\ jobs[j].pc = "write"
  /\ LET job == jobs[j]
         d == job.ds
         upd == IF job.outcome = "ok"
                  THEN CompletedUpdate(datasets[d], ParseResult, now)
                  ELSE FailedUpdate(datasets[d], job.outcome, Stamped(job), now)
     IN /\ datasets' = findByIdAndUpdate(d, upd)
        /\ jobs' = [jobs EXCEPT ![j] = DoneJob]
  /\ UNCHANGED <<variant, nextId, storage, reqs, response, dup, now, aux>>

\* processFile, first await: Dataset.findOne loads the document.
ProcessFileFind(r, d) ==
  /\ reqs[r].pc = "idle"
  /\ \A q \in Reqs : q < r => reqs[q].pc # "idle"
  /\ IF datasets[d].exists
       THEN /\ reqs' = [reqs EXCEPT ![r] =
                         [pc |-> "found", ds |-> d,
                          seen |-> datasets[d].processingStatus]]
            /\ UNCHANGED response
       ELSE /\ response' = "notfound"
            /\ reqs' = [reqs EXCEPT ![r] = DoneReq]
  /\ UNCHANGED <<variant, datasets, nextId, storage, jobs, dup, now, aux>>

\* The guard of processFile on the loaded document.
AlreadyProcessing_Skipped(status) == FALSE
AlreadyProcessing(status) == status = "processing"

\* processFile, after findOne: the status check on the loaded document, then
\* dataset.save() (which sets the modified paths and, through the pre-save
\* hook, lastModified) and the start of the background job.
ProcessFileDecide(r) ==
  /\ reqs[r].pc = "found"
  /\ LET d == reqs[r].ds IN
     IF AlreadyProcessing(reqs[r].seen) THEN
       /\ response' = "rejected"
       /\ UNCHANGED <<datasets, jobs>>
     ELSE IF ~datasets[d].exists THEN
       \* save() of a document that is gone: DocumentNotFoundError
       /\ response' = "error"
       /\ UNCHANGED <<datasets, jobs>>
     ELSE
       /\ datasets' = [datasets EXCEPT ![d].processingStatus = "processing",
                                       ![d].lastModified = now]
       /\ jobs' = [jobs EXCEPT ![ProcessJob(r)] =
                     NewJob(d, "processFile", datasets[d].fileUrl, datasets[d].fileType,
                            HeldAtStart("processFile", storage[datasets[d].fileUrl], "none"))]
       /\ response' = "accepted"
  /\ reqs' = [reqs EXCEPT ![r] = DoneReq]
  /\ UNCHANGED <<variant, nextId, storage, dup, now, aux>>

\* duplicateDataset, first await: load the original.
DuplicateFind(d) ==
  /\ dup.pc = "idle"
  /\ nextId <= MaxDatasets
  /\ datasets[d].exists
  /\ dup' = [pc |-> "found", snap |-> [datasets[d] EXCEPT !.errorMessage = "",
                                                         !.lastModified = 0]]
  /\ UNCHANGED <<variant, datasets, nextId, storage, jobs, reqs, response, now, aux>>

\* duplicateDataset, second await: Dataset.create of the copy, which takes
\* file, schema and processingStatus from the loaded original.
DuplicateCreate ==
  /\ dup.pc = "found"
  /\ nextId <= MaxDatasets
  /\ datasets' = [datasets EXCEPT ![nextId] =
        NewRecord(dup.snap.fileUrl, dup.snap.fileType, dup.snap.columns,
                  dup.snap.rowCount, dup.snap.processingStatus, now)]
  /\ nextId' = nextId + 1
  /\ dup' = IdleDup
  /\ UNCHANGED <<variant, storage, jobs, reqs, response, now, aux>>

\* deleteDataset: remove the stored bytes the record points to (a failure of
\* that removal is logged and ignored), then the record.
deleteDataset(d) ==
  /\ datasets[d].exists
  /\ storage' = [storage EXCEPT ![datasets[d].fileUrl] = "absent"]
  /\ datasets' = [datasets EXCEPT ![d] = NoRecord]
  /\ UNCHANGED <<variant, nextId, jobs, reqs, response, dup, now, aux>>

\* Time passes.
Tick ==
  /\ now < MaxClock
  /\ now' = now + 1
  /\ UNCHANGED <<variant, datasets, nextId, storage, jobs, reqs, response, dup, aux>>

\* An upload that passed the route's admission, seen from the ingestion state
\* machine: the handler runs with the file type its extension maps to.
AdmittedUpload(type, content) == uploadFile(type, content) /\ UNCHANGED aux

Next ==
  \/ \E t \in FileTypes, c \in Contents : AdmittedUpload(t, c)
  \/ \E j \in JobIds : JobFetch(j)
  \/ \E j \in JobIds : JobCrash(j)
  \/ \E j \in JobIds : JobWrite(j)
  \/ \E r \in Reqs, d \in Ids : ProcessFileFind(r, d)
  \/ \E r \in Reqs : ProcessFileDecide(r)
  \/ \E d \in Ids : DuplicateFind(d)
  \/ DuplicateCreate
  \/ \E d \in Ids : deleteDataset(d)
  \/ Tick

Spec == Init /\ [][Next]_vars

\* The event loop runs every continuation that is ready: a started job gets
\* to its fetch and to its terminal write.
FairSpec ==
  /\ Spec
  /\ \A j \in JobIds : WF_vars(JobFetch(j) \/ JobCrash(j)) /\ WF_vars(JobWrite(j))

\* ------------------------------------------------------------- admission
\* The configured maximum file size (MAX_FILE_SIZE, default 10485760).
MaxFileSize == 2
Sizes == 0..(MaxFileSize + 1)

\* Extensions of file.originalname (path.extname without its dot), as
\* sequences of characters.
Exts ==
  { <<"c","s","v">>, <<"C","S","V">>, <<"j","s","o","n">>, <<"x","l","s","x">>,
    <<"x","l","s">>, <<"x","l","s","m">>, <<"t","x","t">>, <<>> }

MimeTypes ==
  { "text/csv", "application/csv", "application/json",
    "application/vnd.ms-excel",
    "application/vnd.openxmlformats-officedocument.spreadsheetml.sheet",
    "text/plain" }

\* String.prototype.toLowerCase on the characters that occur.
LowerChar(c) ==
  CASE c = "C" -> "c" [] c = "S" -> "s" [] c = "V" -> "v" [] OTHER -> c
toLowerCase(str) == [i \in 1..Len(str) |-> LowerChar(str[i])]

\* RegExp.prototype.test for a pattern that is a plain word: the word occurs
\* somewhere in the string.
Occurs(word, str) ==
  \E i \in 1..(Len(str) - Len(word) + 1) :
    SubSeq(str, i, i + Len(word) - 1) = word

\* allowedExtensions = /csv|json|xlsx|xls/
allowedExtensions(str) ==
  \/ Occurs(<<"c","s","v">>, str)
  \/ Occurs(<<"j","s","o","n">>, str)
  \/ Occurs(<<"x","l","s","x">>, str)
  \/ Occurs(<<"x","l","s">>, str)

allowedMimeTypes ==
  { "text/csv", "application/csv", "application/json",
    "application/vnd.ms-excel",
    "application/vnd.openxmlformats-officedocument.spreadsheetml.sheet" }

\* multer's fileFilter: the extension test and the MIME test, each on its own.
fileFilter(ext, mime) ==
  allowedExtensions(toLowerCase(ext)) /\ mime \in allowedMimeTypes

\* multer's limits.fileSize.
ExceedsLimit_Off(size) == FALSE
ExceedsLimit(size) == size > MaxFileSize

\* validateFileMetadata: the empty file (the size check after multer repeats
\* multer's limit).
validateFileMetadata(size) == size # 0 /\ ~ExceedsLimit(size)

\* The handler's mapping of the extension to fileType.
FileTypeOf(ext) ==
  LET e == toLowerCase(ext) IN
  CASE e = <<"c","s","v">> -> "csv"
    [] e = <<"j","s","o","n">> -> "json"
    [] e = <<"x","l","s","x">> \/ e = <<"x","l","s">> -> "excel"
    [] OTHER -> "other"

\* What the route POST /api/upload makes of a request: the stage that
\* rejects it, or "admitted". The Cloudinary handlers refuse fileType other,
\* the local one takes it.
Verdict(ext, mime, size) ==
  IF ~fileFilter(ext, mime) THEN "filter"
  ELSE IF ExceedsLimit(size) THEN "limit"
  ELSE IF ~validateFileMetadata(size) THEN "empty"
  ELSE IF variant # "local" /\ FileTypeOf(ext) = "other" THEN "type"
  ELSE "admitted"

\* What has become of the file multer wrote under the upload directory when
\* the route is through (disk storage: local and disk variant; the buffer
\* variant keeps the upload in memory). A filtered file is never written;
\* multer removes the files of a request it aborts; validateFileMetadata
\* and the disk handler unlink; the disk handler unlinks after the transfer
\* to Cloudinary; the local handler keeps the file as the dataset's fileUrl.
TempFile(verdict) ==
  IF variant = "buffer" \/ verdict = "filter" THEN "none"
  ELSE IF verdict = "admitted" /\ variant = "local" THEN "kept"
  ELSE "removed"

\* POST /api/upload: upload.single, validateFileMetadata, cleanupOnError,
\* uploadFile. What the file holds plays no part before the handler stores
\* it.
PostUpload(ext, mime, size) ==
  LET v == Verdict(ext, mime, size) IN
  /\ upl' = [ext |-> ext, mime |-> mime, size |-> size, verdict |-> v,
             tempFile |-> TempFile(v)]
  /\ IF v = "admitted"
       THEN \E content \in Contents : uploadFile(FileTypeOf(ext), content)
       ELSE UNCHANGED <<variant, datasets, nextId, storage, jobs, reqs,
                        response, dup, now>>
  /\ UNCHANGED <<gen, insights, sample, inferred, units>>

\* The upload route, request after request.
NextAdmission ==
  \E e \in Exts, m \in MimeTypes, n \in Sizes : PostUpload(e, m, n)

AdmissionSpec == Init /\ [][NextAdmission]_vars

\* -------------------------------------------------------------- insights
MaxInsights == 2

\* generateAIInsight, first await: Dataset.findOne, then the checks on the
\* loaded document; a dataset that is not completed is refused with 400.
PreconditionFailed_Skipped(status) == FALSE
PreconditionFailed(status) == status # "completed"

GenerateCheck(d) ==
  /\ gen.pc = "idle"
  /\ gen' = IF ~datasets[d].exists
              THEN [IdleGen EXCEPT !.answer = "notfound"]
            ELSE IF PreconditionFailed(datasets[d].processingStatus)
              THEN [pc |-> "idle", ds |-> d, seen |-> datasets[d].processingStatus,
                    answer |-> "precondition"]
            ELSE [pc |-> "openai", ds |-> d, seen |-> datasets[d].processingStatus,
                  answer |-> "none"]
  /\ UNCHANGED <<variant, datasets, nextId, storage, jobs, reqs, response,
                 dup, now, upl, insights, sample, inferred, units>>

\* generateAIInsight, after the await of the OpenAI call: Insight.create
\* with aiGenerated true and status published. "checked" records the status
\* the generating request had loaded.
GenerateCreate ==
  /\ gen.pc = "openai"
  /\ Len(insights) < MaxInsights
  /\ insights' = Append(insights,
        [datasetId |-> gen.ds, aiGenerated |-> TRUE, status |-> "published",
         checked |-> gen.seen])
  /\ gen' = [gen EXCEPT !.pc = "idle", !.answer = "created"]
  /\ UNCHANGED <<variant, datasets, nextId, storage, jobs, reqs, response,
                 dup, now, upl, sample, inferred, units>>

\* generateAIInsight when the key is missing or the OpenAI call throws: the
\* error goes to the error handler and no record is created.
GenerateFail ==
  /\ gen.pc = "openai"
  /\ gen' = [gen EXCEPT !.pc = "idle", !.answer = "error"]
  /\ UNCHANGED <<variant, datasets, nextId, storage, jobs, reqs, response,
                 dup, now, upl, insights, sample, inferred, units>>

\* duplicateInsight: a draft copy of an insight, aiGenerated included.
duplicateInsight(i) ==
  /\ i \in 1..Len(insights)
  /\ Len(insights) < MaxInsights
  /\ insights' = Append(insights, [insights[i] EXCEPT !.status = "draft"])
  /\ UNCHANGED <<variant, datasets, nextId, storage, jobs, reqs, response,
                 dup, now, upl, gen, sample, inferred, units>>

\* Insight generation next to upload, ingestion and one re-processing
\* request (of CSV files: generateAIInsight does not look at the file type).
NextInsight ==
  \/ \E c \in Contents : AdmittedUpload("csv", c)
  \/ \E j \in JobIds : JobFetch(j)
  \/ \E j \in JobIds : JobWrite(j)
  \/ \E d \in Ids : ProcessFileFind(1, d)
  \/ ProcessFileDecide(1)
  \/ \E d \in Ids : GenerateCheck(d)
  \/ GenerateCreate
  \/ GenerateFail
  \/ \E i \in 1..MaxInsights : duplicateInsight(i)

InsightSpec == Init /\ [][NextInsight]_vars

\* ------------------------------------------------------- schema inference
MaxRows == 3
MaxWideRows == 2
MaxIndexRows == 1

\* JavaScript values as the parsers hand them to detectType. A string is
\* described by what the code asks of it: whether it is "", whether
\* trim() leaves nothing, whether Date.parse and Number accept it.
JsNull == [js |-> "null"]
JsUndefined == [js |-> "undefined"]
JsInt == [js |-> "number", integral |-> TRUE]
JsFloat == [js |-> "number", integral |-> FALSE]
JsBool == [js |-> "boolean"]
JsStr(e, b, d, n) ==
  [js |-> "string", empty |-> e, blank |-> b, dateLike |-> d, numberLike |-> n]
JsEmpty == JsStr(TRUE, TRUE, FALSE, TRUE)       \* ""
JsBlank == JsStr(FALSE, TRUE, FALSE, TRUE)      \* " "
JsText == JsStr(FALSE, FALSE, FALSE, FALSE)     \* "abc"
JsDigits == JsStr(FALSE, FALSE, TRUE, TRUE)     \* "2024"
JsDate == JsStr(FALSE, FALSE, TRUE, FALSE)      \* "2024-01-15"
JsNumeral == JsStr(FALSE, FALSE, FALSE, TRUE)   \* "3.5"

\* detectType; the disk and the buffer variant ask value.trim() !== "" before
\* they answer number.
detectType(value) ==
  IF value.js \in {"null", "undefined"} THEN "null"
  ELSE IF value.js = "string" /\ value.empty THEN "null"
  ELSE IF value.js = "number"
    THEN (IF value.integral THEN "integer" ELSE "float")
  ELSE IF value.js = "boolean" THEN "boolean"
  ELSE IF value.js = "string"
    THEN (IF value.dateLike THEN "date"
          ELSE IF value.numberLike /\ (variant = "local" \/ ~value.blank)
            THEN "number"
          ELSE "string")
  ELSE IF value.js = "array" THEN "array"
  ELSE IF value.js = "object" THEN "object"
  ELSE "unknown"

Range(seq) == {seq[i] : i \in 1..Len(seq)}

\* Set.prototype.add on a Set kept in insertion order.
SetAdd(types, t) == IF t \in Range(types) THEN types ELSE Append(types, t)

IsNullTag(t) == t = "null" \/ t = "undefined"

\* counts.get(type) after the counting loop: the occurrences in the array.
Occurrences(types, t) == Cardinality({i \in 1..Len(types) : types[i] = t})

\* counts.forEach in insertion order: a later tag replaces the current one
\* only if its count is strictly greater.
RECURSIVE MostCommonFrom(_, _, _, _, _)
MostCommonFrom(order, types, i, maxCount, mostCommon) ==
  IF i > Len(order) THEN mostCommon
  ELSE IF Occurrences(types, order[i]) > maxCount
    THEN MostCommonFrom(order, types, i + 1, Occurrences(types, order[i]), order[i])
  ELSE MostCommonFrom(order, types, i + 1, maxCount, mostCommon)

\* The keys of a Map filled by going through an array: its distinct elements
\* in order of first occurrence.
RECURSIVE Distinct(_)
Distinct(seq) ==
  IF seq = <<>> THEN <<>>
  ELSE SetAdd(Distinct(SubSeq(seq, 1, Len(seq) - 1)), seq[Len(seq)])

\* getMostCommonType(types)
getMostCommonType(types) ==
  LET nonNullTypes == SelectSeq(types, LAMBDA t : ~IsNullTag(t)) IN
  IF Len(types) = 0 THEN "unknown"
  ELSE IF Len(nonNullTypes) = 0 THEN "null"
  ELSE IF Len(nonNullTypes) = 1 THEN nonNullTypes[1]
  ELSE MostCommonFrom(Distinct(nonNullTypes), nonNullTypes, 1, 0, "string")

\* types.has("null") || types.has("undefined")
HasNull_Never(types) == FALSE
HasNull(types) == \E i \in 1..Len(types) : IsNullTag(types[i])

\* The entry of the columns Map for a key, or 0.
IndexOf(cols, key) ==
  IF \E i \in 1..Len(cols) : cols[i].name = key
    THEN CHOOSE i \in 1..Len(cols) : cols[i].name = key
    ELSE 0

\* columns.get(key).add(tag), after columns.set(key, new Set()) for a key
\* the Map does not hold yet.
AddType(cols, key, tag) ==
  LET i == IndexOf(cols, key) IN
  IF i = 0 THEN Append(cols, [name |-> key, types |-> <<tag>>])
  ELSE [cols EXCEPT ![i].types = SetAdd(@, tag)]

\* Property names that are array indices ("0", "1", ...). One such name is
\* enough to show their place in the key order.
IndexKeys == {"1"}

\* Object.keys(row): an object built by JSON.parse or sheet_to_json lists
\* its integer-like names first, then the other names in the order in which
\* they were written. fields holds them as the file writes them.
Object_keys(fields) ==
  SelectSeq(fields, LAMBDA f : f.k \in IndexKeys)
    \o SelectSeq(fields, LAMBDA f : f.k \notin IndexKeys)

\* Object.keys(row).forEach: the fields of a row in the order given.
RECURSIVE VisitFields(_, _, _)
VisitFields(cols, fields, i) ==
  IF i > Len(fields) THEN cols
  ELSE VisitFields(AddType(cols, fields[i].k, detectType(fields[i].v)),
                   fields, i + 1)

\* rows.forEach of processJSON and processExcel: elements that are not
\* objects are passed over.
RECURSIVE VisitRows(_, _, _)
VisitRows(cols, rows, i) ==
  IF i > Len(rows) THEN cols
  ELSE VisitRows(IF rows[i].object
                   THEN VisitFields(cols, Object_keys(rows[i].fields), 1)
                 ELSE cols,
                 rows, i + 1)

\* row[header]: the value of the field, undefined when the record is short.
ValueOf(row, header) ==
  IF \E i \in 1..Len(row.fields) : row.fields[i].k = header
    THEN row.fields[CHOOSE i \in 1..Len(row.fields) : row.fields[i].k = header].v
    ELSE JsUndefined

\* headers.forEach inside the 'data' handler of processCSV.
RECURSIVE VisitHeaders(_, _, _, _)
VisitHeaders(cols, headers, row, i) ==
  IF i > Len(headers) THEN cols
  ELSE VisitHeaders(
         IF IndexOf(cols, headers[i]) = 0 THEN cols
         ELSE AddType(cols, headers[i], detectType(ValueOf(row, headers[i]))),
         headers, row, i + 1)

\* The 'data' events of processCSV: count the record, then visit the headers.
RECURSIVE VisitRecords(_, _, _, _)
VisitRecords(acc, headers, rows, i) ==
  IF i > Len(rows) THEN acc
  ELSE VisitRecords(
         [columns |-> VisitHeaders(acc.columns, headers, rows[i], 1),
          rowCount |-> acc.rowCount + 1],
         headers, rows, i + 1)

\* Array.from(columns.entries()).map(...)
columnInfo(cols) ==
  [i \in 1..Len(cols) |->
     [name |-> cols[i].name,
      type |-> getMostCommonType(cols[i].types),
      nullable |-> HasNull(cols[i].types)]]

\* processCSV on the records csv-parser emits: the 'headers' event sets an
\* empty Set for every header, every 'data' event is counted.
processCSV(file) ==
  LET start == [columns |-> [i \in 1..Len(file.headers) |->
                               [name |-> file.headers[i], types |-> <<>>]],
                rowCount |-> 0]
      acc == VisitRecords(start, file.headers, file.rows, 1)
  IN [done |-> TRUE, columns |-> columnInfo(acc.columns),
      rowCount |-> acc.rowCount]

\* The rows processJSON selects from the parsed document: the array itself,
\* the first array-valued property of an object, the object as a single
\* row, or nothing for any other value.
SelectedRows_None(file) == <<>>
SelectedRows(file) ==
  CASE file.shape \in {"array", "wrapped"} -> file.rows
    [] file.shape = "single" -> <<file.rows[1]>>
    [] OTHER -> <<>>

processJSON(file) ==
  LET rows == SelectedRows(file) IN
  [done |-> TRUE, columns |-> columnInfo(VisitRows(<<>>, rows, 1)),
   rowCount |-> Len(rows)]

\* XLSX.utils.sheet_to_json(worksheet): one object per row below the header
\* row, blank rows left out.
sheet_to_json(file) == SelectSeq(file.rows, LAMBDA r : r.fields # <<>>)

processExcel(file) ==
  LET data == sheet_to_json(file) IN
  [done |-> TRUE, columns |-> columnInfo(VisitRows(<<>>, data, 1)),
   rowCount |-> Len(data)]

\* The switch of the job on fileType.
Process(file) ==
  CASE file.format = "csv" -> processCSV(file)
    [] file.format = "json" -> processJSON(file)
    [] OTHER -> processExcel(file)

\* ---- the files inference is run on
Keys == {"a", "b"}
NumericKeys == {"a", "1"}
JsonValues == {JsInt, JsText, JsNull}
CsvValues == {JsText, JsEmpty, JsDigits}
ExcelValues == {JsInt, JsText}

\* Rows whose fields are keys of K with values of V, every key at most once.
Objects(K, V) ==
  { [object |-> TRUE, fields |-> f] :
      f \in { g \in UNION {[1..n -> [k : K, v : V]] : n \in 0..Cardinality(K)} :
                \A i, j \in DOMAIN g : i # j => g[i].k # g[j].k } }

\* An element of a JSON array that is not an object.
NotAnObject == [object |-> FALSE, fields |-> <<>>]

\* Records of a CSV file under the given headers: a record carries the
\* first cells of the line, at least one.
Records(headers, V) ==
  { r \in Objects(Range(headers), V) :
      /\ Len(r.fields) >= 1
      /\ \A i \in 1..Len(r.fields) : r.fields[i].k = headers[i] }

SeqsUpTo(S, n) == UNION {[1..m -> S] : m \in 0..n}

\* Tables with one key have up to MaxRows rows, tables with two keys up to
\* MaxWideRows.
TablesOf(format, shape, headers, narrow, wide) ==
  { [format |-> format, shape |-> shape, headers |-> headers, rows |-> rows] :
      rows \in SeqsUpTo(narrow, MaxRows) \cup SeqsUpTo(wide, MaxWideRows) }

\* Tables with an integer-like column name have up to MaxIndexRows rows.
IndexTablesOf(format, shape, headers, rowSet) ==
  { [format |-> format, shape |-> shape, headers |-> headers, rows |-> rows] :
      rows \in SeqsUpTo(rowSet, MaxIndexRows) }

JsonFiles ==
  UNION { TablesOf("json", shape, <<>>,
                   Objects({"a"}, JsonValues) \cup {NotAnObject},
                   Objects(Keys, JsonValues) \cup {NotAnObject})
          \cup IndexTablesOf("json", shape, <<>>, Objects(NumericKeys, JsonValues)) :
            shape \in {"array", "wrapped"} }
  \cup { [format |-> "json", shape |-> "single", headers |-> <<>>, rows |-> <<o>>] :
           o \in Objects(Keys, JsonValues) }
  \cup { [format |-> "json", shape |-> "scalar", headers |-> <<>>, rows |-> <<>>] }

CsvFiles ==
  TablesOf("csv", "none", <<"a">>, Records(<<"a">>, CsvValues), {})
  \cup TablesOf("csv", "none", <<"a", "b">>, {}, Records(<<"a", "b">>, CsvValues))
  \cup TablesOf("csv", "none", <<"b", "a">>, {}, Records(<<"b", "a">>, CsvValues))
  \cup IndexTablesOf("csv", "none", <<"a", "1">>, Records(<<"a", "1">>, CsvValues))
  \cup { [format |-> "csv", shape |-> "none", headers |-> <<>>, rows |-> <<>>] }

ExcelFiles ==
  TablesOf("excel", "none", <<>>, Objects({"a"}, ExcelValues),
           Objects(Keys, ExcelValues))
  \cup IndexTablesOf("excel", "none", <<>>, Objects(NumericKeys, ExcelValues))

\* The CSV file
\*   name,age,signup_date / Alice,30,2023-01-01 / Bob,,2023-02-15 / Cara,28,
\* as csv-parser emits it: every cell is a string. "2023-01-01" parses as a
\* date; whether Date.parse takes a bare "30" or "28" for a date depends on
\* the engine, so both are possible for either cell.
PeopleFiles ==
  LET Record3(name, age, signup) ==
        [object |-> TRUE,
         fields |-> <<[k |-> "name", v |-> name], [k |-> "age", v |-> age],
                      [k |-> "signup_date", v |-> signup]>>]
  IN
  { [format |-> "csv", shape |-> "none",
     headers |-> <<"name", "age", "signup_date">>,
     rows |-> <<Record3(JsText, thirty, JsDate),
                Record3(JsText, JsEmpty, JsDate),
                Record3(JsText, twentyEight, JsEmpty)>>] :
      thirty \in {JsNumeral, JsDigits}, twentyEight \in {JsNumeral, JsDigits} }

Files == JsonFiles \cup CsvFiles \cup ExcelFiles \cup PeopleFiles

InitInfer ==
  /\ variant \in Variants
  /\ datasets = [d \in Ids |-> NoRecord]
  /\ nextId = 1
  /\ storage = [l \in Ids |-> "absent"]
  /\ jobs = [j \in JobIds |-> FreeJob]
  /\ reqs = [r \in Reqs |-> IdleReq]
  /\ response = "none"
  /\ dup = IdleDup
  /\ now = 0
  /\ upl = NoUpload
  /\ gen = IdleGen
  /\ insights = <<>>
  /\ sample \in Files
  /\ inferred = NoResult
  /\ UnitsAtRest

\* The parser of the file's format runs on the file.
Infer ==
  /\ ~inferred.done
  /\ inferred' = Process(sample)
  /\ UNCHANGED <<variant, datasets, nextId, storage, jobs, reqs, response,
                 dup, now, upl, gen, insights, sample, units>>

InferSpec == InitInfer /\ [][Infer]_vars

\* ------------------------------------------------------------ detectType
\* The requests and the inference state held still by the units below.
pipeline == <<nextId, storage, jobs, reqs, response, dup, upl, gen, insights,
              sample, inferred>>

\* detectType on its own: every kind of value a caller can hand to it.

MaxCells == 2

JsArray == [js |-> "array"]
JsObject == [js |-> "object"]

InitDetect ==
  /\ variant \in Variants
  /\ datasets = [d \in Ids |-> NoRecord]
  /\ nextId = 1
  /\ storage = [l \in Ids |-> "absent"]
  /\ jobs = [j \in JobIds |-> FreeJob]
  /\ reqs = [r \in Reqs |-> IdleReq]
  /\ response = "none"
  /\ dup = IdleDup
  /\ now = 0
  /\ upl = NoUpload
  /\ gen = IdleGen
  /\ insights = <<>>
  /\ sample = NoSample
  /\ inferred = NoResult
  /\ \* [js |-> "bigint"] stands for a value of any other typeof (function,
     \* symbol, bigint): no parser of the job yields one, the last line of
     \* detectType answers it
     \E n \in 1..MaxCells :
       \E values \in [1..n -> {JsNull, JsUndefined, JsBool, JsInt, JsFloat,
                                JsEmpty, JsBlank, JsText, JsDigits, JsDate,
                                JsNumeral, JsArray, JsObject, [js |-> "bigint"]}] :
         detected = [NoDetect EXCEPT !.values = values]
  /\ doc = NoDoc
  /\ scanned = NotScanned
  /\ preview = NoPreview
  /\ attempts = [a \in (1..MaxAttempts) |-> NoAttempt]
  /\ requestCounts = [u \in (1..MaxUsers) |-> NoEntry]
  /\ rate = NoLimiter

\* detectType is called on every value.
Detect ==
  /\ ~detected.done
  /\ detected' = [detected EXCEPT
                    !.done = TRUE,
                    !.tags = [i \in 1..Len(detected.values) |->
                                detectType(detected.values[i])]]
  /\ UNCHANGED <<variant, datasets, now, pipeline, doc, scanned, preview,
                 attempts, requestCounts, rate>>

DetectSpec == InitDetect /\ [][Detect]_vars

\* ------------------------------------------------------------ JSON preview
\* The rows processJSON scans and the rows readJSONPreview returns, for one
\* parsed document. The selection is the same code in every variant
\* (processJSON, processJSONBuffer), so the unit runs under one of them.

MaxItems == 2
MaxProps == 2
MaxLimit == 2

\* Parsed documents: a root array, a root object with up to MaxProps
\* properties of different names, or any other root value. The elements of
\* an array are rows: an object, or something that is none. The names of the
\* properties include "", a name JSON allows; the value of a property is an
\* array of rows or a value that is no array.
Docs ==
  LET DocRows == {[object |-> TRUE, fields |-> <<[k |-> "a", v |-> JsInt]>>],
                  NotAnObject}
      PropKeys == {"meta", "items", "", "1"}
      PropValues ==
        {[array |-> FALSE, items |-> <<>>]}
          \cup {[array |-> TRUE, items |-> i] : i \in SeqsUpTo(DocRows, MaxItems)}
  IN { [root |-> "array", items |-> i, props |-> <<>>] :
         i \in SeqsUpTo(DocRows, MaxItems) }
     \cup { [root |-> "object", items |-> <<>>, props |-> q] :
              q \in { g \in UNION {[1..n -> [k : PropKeys, v : PropValues]] :
                                      n \in 0..MaxProps} :
                        \A i, j \in DOMAIN g : i # j => g[i].k # g[j].k } }
     \cup { [root |-> "scalar", items |-> <<>>, props |-> <<>>] }

\* Object.keys(data).find((key) => Array.isArray(data[key])): the
\* properties that hold an array, in the order of Object.keys; find returns
\* the first, or undefined when there is none.
ArrayProps(data) == SelectSeq(Object_keys(data.props), LAMBDA f : f.v.array)

\* The root object taken as a row.
AsRow(data) ==
  [object |-> TRUE,
   fields |-> [i \in 1..Len(data.props) |->
                 [k |-> data.props[i].k,
                  v |-> IF data.props[i].v.array THEN JsArray ELSE JsObject]]]

\* The document as processJSON sees it after its if-chain on the root;
\* if (arrayKey) takes undefined and the empty string for false.
Parsed(data) ==
  LET hits == ArrayProps(data)
      Truthy(h) == h # <<>> /\ h[1].k # ""
      file(shape, rows) ==
        [format |-> "json", shape |-> shape, headers |-> <<>>, rows |-> rows]
  IN CASE data.root = "array" -> file("array", data.items)
       [] data.root = "object" /\ Truthy(hits) -> file("wrapped", hits[1].v.items)
       [] data.root = "object" /\ ~Truthy(hits) -> file("single", <<AsRow(data)>>)
       [] OTHER -> file("scalar", <<>>)

\* readJSONPreview(filePath, limit) on the parsed document. It returns
\* rows.slice(0, limit), where a negative end counts from the end of the
\* array.
readJSONPreview(data, limit) ==
  LET slice(all, end) ==
        LET len == Len(all)
            to == IF end < 0 THEN (IF len + end < 0 THEN 0 ELSE len + end)
                  ELSE (IF end > len THEN len ELSE end)
        IN SubSeq(all, 1, to)
      hits == ArrayProps(data)
      Truthy(h) == h # <<>> /\ h[1].k # ""
      rows == CASE data.root = "array" -> data.items
                [] data.root = "object" ->
                     IF Truthy(hits) THEN hits[1].v.items ELSE <<AsRow(data)>>
                [] OTHER -> <<>>
  IN slice(rows, limit)

InitPreview ==
  /\ variant = "local"
  /\ datasets = [d \in Ids |-> NoRecord]
  /\ nextId = 1
  /\ storage = [l \in Ids |-> "absent"]
  /\ jobs = [j \in JobIds |-> FreeJob]
  /\ reqs = [r \in Reqs |-> IdleReq]
  /\ response = "none"
  /\ dup = IdleDup
  /\ now = 0
  /\ upl = NoUpload
  /\ gen = IdleGen
  /\ insights = <<>>
  /\ sample = NoSample
  /\ inferred = NoResult
  /\ detected = NoDetect
  /\ doc \in Docs
  /\ scanned = NotScanned
  /\ preview = NoPreview
  /\ attempts = [a \in (1..MaxAttempts) |-> NoAttempt]
  /\ requestCounts = [u \in (1..MaxUsers) |-> NoEntry]
  /\ rate = NoLimiter

\* processJSON goes through the rows of the document.
Ingest ==
  /\ ~scanned.done
  /\ scanned' = [done |-> TRUE, rows |-> SelectedRows(Parsed(doc))]
  /\ UNCHANGED <<variant, datasets, now, pipeline, detected, doc, preview,
                 attempts, requestCounts, rate>>

\* getDatasetPreview calls readJSONPreview with the request's limit.
Preview(limit) ==
  /\ ~preview.done
  /\ preview' = [done |-> TRUE, limit |-> limit,
                 rows |-> readJSONPreview(doc, limit)]
  /\ UNCHANGED <<variant, datasets, now, pipeline, detected, doc, scanned,
                 attempts, requestCounts, rate>>

\* The limit getDatasetPreview passes is parseInt(req.query.limit) || 10:
\* any integer but 0; the default lies above every length used here.
NextPreview ==
  \/ Ingest
  \/ \E limit \in {-1} \cup (1..MaxLimit) : Preview(limit)

PreviewSpec == InitPreview /\ [][NextPreview]_vars

\* ------------------------------------------------------------ temp files
\* processFileAsync of the disk variant, one await at a time. An attempt
\* downloads the stored bytes into a file of its own under temp/ and parses
\* that file.

MsgDb == "MongoNetworkError"

\* The file at an attempt's localPath: "none" while localPath is null,
\* "named" when the path is chosen and holds no file, "file" when it does.
\* fs.unlink(localPath): what is left at the path.
unlink_Skipped(temp) == temp
unlink(temp) == "named"

\* processFile or uploadFile calls processFileAsync with the record's type.
AttemptStart(a, d) ==
  /\ attempts[a].pc = "idle"
  /\ \A b \in (1..MaxAttempts) : b < a => attempts[b].pc # "idle"
  /\ datasets[d].exists
  /\ attempts' = [attempts EXCEPT ![a] =
                    [NoAttempt EXCEPT !.pc = "mkdir",
                                      !.fileType = datasets[d].fileType]]
  /\ UNCHANGED <<variant, datasets, now, pipeline, detected, doc, scanned,
                 preview, requestCounts, rate>>

\* One step of an attempt that touches no record.
AttemptStep(a, next) ==
  /\ attempts' = [attempts EXCEPT ![a] = next]
  /\ UNCHANGED <<variant, datasets, now, pipeline, detected, doc, scanned,
                 preview, requestCounts, rate>>

\* await fs.mkdir(tempDir): localPath is assigned only after it.
Mkdir(a) ==
  /\ attempts[a].pc = "mkdir"
  /\ \/ AttemptStep(a, [attempts[a] EXCEPT !.pc = "download", !.temp = "named"])
     \/ AttemptStep(a, [attempts[a] EXCEPT !.pc = "catch", !.error = MsgNoFile])

\* await downloadFromCloudinary(fileUrl, localPath): the bytes are fetched
\* into memory and written with writeFileSync; a failed fetch writes
\* nothing, a failed write may leave a part of the file.
Download(a) ==
  /\ attempts[a].pc = "download"
  /\ \/ AttemptStep(a, [attempts[a] EXCEPT !.pc = "parse", !.temp = "file"])
     \/ \E left \in {"named", "file"} :
          AttemptStep(a, [attempts[a] EXCEPT !.pc = "catch", !.temp = left,
                                             !.error = MsgHttp])

\* The switch on fileType and the parser it calls.
ParseFile(a) ==
  /\ attempts[a].pc = "parse"
  /\ \E bytes \in Contents :
       LET msg == Parse(attempts[a].fileType, bytes) IN
       AttemptStep(a, IF msg = "ok" THEN [attempts[a] EXCEPT !.pc = "update"]
                      ELSE [attempts[a] EXCEPT !.pc = "catch", !.error = msg])

\* await Dataset.findByIdAndUpdate(... completed ...): it resolves, or it
\* rejects and the catch block is entered.
Update(a, d) ==
  /\ attempts[a].pc = "update"
  /\ \/ /\ datasets' = findByIdAndUpdate(d, CompletedUpdate(datasets[d], ParseResult, now))
        /\ attempts' = [attempts EXCEPT ![a].pc = "finally", ![a].written = "completed"]
     \/ /\ attempts' = [attempts EXCEPT ![a].pc = "catch", ![a].error = MsgDb]
        /\ UNCHANGED datasets
  /\ UNCHANGED <<variant, now, pipeline, detected, doc, scanned, preview,
                 requestCounts, rate>>

\* The catch block: await Dataset.findByIdAndUpdate(... failed ...); when
\* it rejects, the finally block runs before the rejection leaves the
\* function.
Catch(a, d) ==
  /\ attempts[a].pc = "catch"
  /\ \/ /\ datasets' = findByIdAndUpdate(d, FailedUpdate(datasets[d], attempts[a].error, TRUE, now))
        /\ attempts' = [attempts EXCEPT ![a].pc = "finally", ![a].written = "failed"]
     \/ /\ attempts' = [attempts EXCEPT ![a].pc = "finally", ![a].written = "rejected"]
        /\ UNCHANGED datasets
  /\ UNCHANGED <<variant, now, pipeline, detected, doc, scanned, preview,
                 requestCounts, rate>>

\* The finally block: if (localPath) await fs.unlink(localPath), a failure
\* of unlink (no file at the path) being logged only.
Finally(a) ==
  /\ attempts[a].pc = "finally"
  /\ AttemptStep(a, [attempts[a] EXCEPT
                       !.pc = "done",
                       !.temp = IF @ = "none" THEN @ ELSE unlink(@)])

\* The record the attempts work on was created by an upload; records of
\* type other stem from the local variant's uploadFile, the only one that
\* stores them.
InitAttempts ==
  /\ variant = "disk"
  /\ \E t \in FileTypes :
       datasets = [d \in Ids |-> IF d = 1 THEN NewRecord(1, t, <<>>, 0, "processing", 0)
                                 ELSE NoRecord]
  /\ nextId = 2
  /\ storage \in {[l \in Ids |-> IF l = 1 THEN c ELSE "absent"] : c \in Contents}
  /\ jobs = [j \in JobIds |-> FreeJob]
  /\ reqs = [r \in Reqs |-> IdleReq]
  /\ response = "none"
  /\ dup = IdleDup
  /\ now = 0
  /\ upl = NoUpload
  /\ gen = IdleGen
  /\ insights = <<>>
  /\ sample = NoSample
  /\ inferred = NoResult
  /\ UnitsAtRest

NextAttempts ==
  \/ \E a \in (1..MaxAttempts) : AttemptStart(a, 1)
  \/ \E a \in (1..MaxAttempts) : Mkdir(a)
  \/ \E a \in (1..MaxAttempts) : Download(a)
  \/ \E a \in (1..MaxAttempts) : ParseFile(a)
  \/ \E a \in (1..MaxAttempts) : Update(a, 1)
  \/ \E a \in (1..MaxAttempts) : Catch(a, 1)
  \/ \E a \in (1..MaxAttempts) : Finally(a)

AttemptSpec == InitAttempts /\ [][NextAttempts]_vars

\* ------------------------------------------------------------ rate limiter
\* The middleware rateLimitByUser(maxRequests, windowMs) returns, with its
\* Map requestCounts, under requests of several users while time passes.

MaxRequests == 2
MaxWindow == 2
MaxTime == 4

\* userRequests.count >= maxRequests
LimitReached_Off(entry) == FALSE
LimitReached(entry) == entry.count >= rate.maxRequests

\* The middleware for a request of an authenticated user.
Request(u) ==
  LET entry == requestCounts[u] IN
  /\ IF ~entry.held \/ now > entry.resetTime THEN
       \* !userRequests || now > userRequests.resetTime
       /\ requestCounts' = [requestCounts EXCEPT ![u] =
                              [held |-> TRUE, count |-> 1,
                               resetTime |-> now + rate.windowMs]]
       /\ rate' = [rate EXCEPT !.user = u, !.answer = "next", !.passed[u] = 1,
                               !.opened[u] = @ + 1]
     ELSE IF LimitReached(entry) THEN
       /\ rate' = [rate EXCEPT !.user = u, !.answer = "429"]
       /\ UNCHANGED requestCounts
     ELSE
       /\ requestCounts' = [requestCounts EXCEPT ![u].count = @ + 1]
       /\ rate' = [rate EXCEPT !.user = u, !.answer = "next", !.passed[u] = @ + 1]
  /\ UNCHANGED <<variant, datasets, now, pipeline, detected, doc, scanned,
                 preview, attempts>>

\* A request without req.user is passed on and leaves the Map alone.
RequestAnonymous ==
  /\ rate' = [rate EXCEPT !.user = 0, !.answer = "next"]
  /\ UNCHANGED <<variant, datasets, now, pipeline, detected, doc, scanned,
                 preview, attempts, requestCounts>>

\* Date.now() grows.
Advance ==
  /\ now < MaxTime
  /\ now' = now + 1
  /\ UNCHANGED <<variant, datasets, pipeline, detected, doc, scanned, preview,
                 attempts, requestCounts, rate>>

InitRate ==
  /\ variant = "local"
  /\ datasets = [d \in Ids |-> NoRecord]
  /\ nextId = 1
  /\ storage = [l \in Ids |-> "absent"]
  /\ jobs = [j \in JobIds |-> FreeJob]
  /\ reqs = [r \in Reqs |-> IdleReq]
  /\ response = "none"
  /\ dup = IdleDup
  /\ now = 0
  /\ upl = NoUpload
  /\ gen = IdleGen
  /\ insights = <<>>
  /\ sample = NoSample
  /\ inferred = NoResult
  /\ detected = NoDetect
  /\ doc = NoDoc
  /\ scanned = NotScanned
  /\ preview = NoPreview
  /\ attempts = [a \in (1..MaxAttempts) |-> NoAttempt]
  /\ requestCounts = [u \in (1..MaxUsers) |-> NoEntry]
  /\ \E m \in 1..MaxRequests, w \in 1..MaxWindow :
       rate = [NoLimiter EXCEPT !.maxRequests = m, !.windowMs = w]

NextRate ==
  \/ \E u \in (1..MaxUsers) : Request(u)
  \/ RequestAnonymous
  \/ Advance

RateSpec == InitRate /\ [][NextRate]_vars

\* ------------------------------------------------------------ properties
Started == {j \in JobIds : jobs[j].pc # "free"}
Status(d) == datasets[d].processingStatus

\* Request r gets its answer in this step.
Decides(r) == reqs[r].pc = "found" /\ reqs'[r].pc = "done" /\ response' # "none"

\* C1: once a dataset is completed or failed, its status changes only to
\* processing, and only in the step in which a processFile request for it is
\* accepted.
C1_TerminalLeftOnlyByReprocess ==
  [][\A d \in Ids :
       (/\ datasets[d].exists /\ datasets'[d].exists
        /\ Status(d) \in Terminal
        /\ datasets'[d].processingStatus # Status(d))
       => /\ datasets'[d].processingStatus = "processing"
          /\ \E r \in Reqs : /\ Decides(r) /\ reqs[r].ds = d
                              /\ response' = "accepted"]_vars

\* C2: while the attempt started by one processFile request has not written
\* its terminal status, another processFile request for the same dataset is
\* answered with the "already being processed" error and changes neither the
\* record nor the set of jobs, however the two requests' steps interleave.
C2_SecondRequestRejected ==
  [][\A r \in Reqs :
       (/\ Decides(r)
        /\ datasets[reqs[r].ds].exists
        /\ \E j \in Started : /\ jobs[j].ds = reqs[r].ds
                               /\ jobs[j].origin = "processFile"
                               /\ Active(j))
       => /\ response' = "rejected"
          /\ UNCHANGED <<datasets, jobs>>]_vars

\* C3: a dataset never has two started jobs that both still owe their
\* terminal write.
C3_AtMostOneActiveJob ==
  \A d \in Ids : Cardinality({j \in Started : jobs[j].ds = d /\ Active(j)}) <= 1

\* C4: every started job eventually performs its terminal write, and no job
\* ends in an unhandled error.
C4_EveryJobTerminates ==
  /\ \A j \in JobIds : Active(j) ~> (jobs[j].pc = "done")
  /\ [](\A j \in JobIds : jobs[j].pc # "crashed")

\* C5: a completed dataset has an empty errorMessage.
C5_CompletedHasNoError ==
  \A d \in Ids :
    datasets[d].exists /\ Status(d) = "completed" => datasets[d].errorMessage = ""

\* C6: a job whose fetch or parse failed ends by writing failed with a
\* non-empty errorMessage to its record (if the record still exists); it
\* never ends otherwise.
C6_FailureEndsFailed ==
  [][\A j \in Started :
       (/\ Active(j)
        /\ jobs'[j].pc \in {"done", "crashed"}
        /\ \/ jobs[j].pc = "write" /\ jobs[j].outcome # "ok"
           \/ jobs[j].pc = "fetch" /\ UnhandledStreamError(jobs[j]))
       => /\ jobs'[j].pc = "done"
          /\ datasets[jobs[j].ds].exists =>
                /\ datasets'[jobs[j].ds].processingStatus = "failed"
                /\ datasets'[jobs[j].ds].errorMessage # ""]_vars

\* C7: a processFile request that loaded its dataset as processing is
\* answered with the rejection, and that step changes no dataset record and
\* starts no job.
C7_ProcessingIsRejected ==
  [][\A r \in Reqs :
       Decides(r) /\ reqs[r].seen = "processing"
       => /\ response' = "rejected"
          /\ UNCHANGED <<datasets, jobs>>]_vars

\* C7 witness: a request has been rejected while a dataset is processing.
C7_Witness ==
  /\ response = "rejected"
  /\ \E d \in Ids : datasets[d].exists /\ Status(d) = "processing"

\* C8: when a job reads its bytes, the record has already left pending (the
\* attempt's processing write is committed before the fetch).
C8_ProcessingWrittenBeforeFetch ==
  [][\A j \in Started :
       (/\ jobs[j].pc = "fetch" /\ jobs'[j].pc # "fetch"
        /\ datasets[jobs[j].ds].exists)
       => Status(jobs[j].ds) # "pending"]_vars

\* C9: a step that changes a dataset's processingStatus leaves its
\* lastModified at the time of the step.
C9_StatusChangeStamps ==
  [][\A d \in Ids :
       (/\ datasets[d].exists /\ datasets'[d].exists
        /\ datasets'[d].processingStatus # Status(d))
       => datasets'[d].lastModified = now]_vars

\* C10: a record that comes into existence has processingStatus pending.
C10_CreatedPending ==
  [][\A d \in Ids :
       ~datasets[d].exists /\ datasets'[d].exists
       => datasets'[d].processingStatus = "pending"]_vars

\* A dataset in processing that no running job will ever write to.
Stale(d) ==
  /\ datasets[d].exists
  /\ Status(d) = "processing"
  /\ \A j \in JobIds : Active(j) => jobs[j].ds # d

\* C11: from a stale processing dataset some operation of the server is
\* enabled that moves it to failed (the claim asks in addition for a 'timed
\* out' errorMessage; no operation writes failed at all in such a state).
C11_StaleCanBeFailed ==
  \A d \in Ids :
    Stale(d) => ENABLED (Next /\ datasets'[d].exists
                              /\ datasets'[d].processingStatus = "failed")

\* A step that creates a dataset record or starts a job.
Creates ==
  \/ \E d \in Ids : ~datasets[d].exists /\ datasets'[d].exists
  \/ \E j \in JobIds : jobs[j].pc = "free" /\ jobs'[j].pc # "free"

\* The extensions the upload gate is to let through.
SupportedExts ==
  { <<"c","s","v">>, <<"j","s","o","n">>, <<"x","l","s","x">>, <<"x","l","s">> }

\* C12: a record or a job is created only by a request whose lower-cased
\* extension is exactly csv, json, xlsx or xls, and a request with any other
\* extension is rejected.
C12_OnlySupportedExtensions ==
  /\ [][Creates => toLowerCase(upl'.ext) \in SupportedExts]_vars
  /\ [](upl.verdict # "none" /\ toLowerCase(upl.ext) \notin SupportedExts
          => upl.verdict # "admitted")

\* The MIME types that belong to an extension.
MimeOf(ext) ==
  LET e == toLowerCase(ext) IN
  CASE e = <<"c","s","v">> -> {"text/csv", "application/csv"}
    [] e = <<"j","s","o","n">> -> {"application/json"}
    [] e = <<"x","l","s">> -> {"application/vnd.ms-excel"}
    [] e = <<"x","l","s","x">> ->
         {"application/vnd.openxmlformats-officedocument.spreadsheetml.sheet"}
    [] OTHER -> {}

\* C13: an admitted upload declares a MIME type that belongs to its
\* extension (a csv file declared as application/json is not admitted).
C13_MimeMatchesExtension ==
  upl.verdict = "admitted" => upl.mime \in MimeOf(upl.ext)

\* C14: a request of size 0 or above the maximum is rejected by the
\* middleware in front of the handler, its file is not left on disk, and no
\* record or job is created by a request of such a size.
C14_SizeGate ==
  /\ [][Creates => upl'.size > 0 /\ upl'.size <= MaxFileSize]_vars
  /\ [](upl.verdict # "none" /\ (upl.size = 0 \/ upl.size > MaxFileSize)
          => upl.verdict \in {"filter", "limit", "empty"} /\ upl.tempFile # "kept")

\* C14 witness: an empty or an oversized file has been turned away after
\* multer had written it to disk.
C14_Witness ==
  /\ variant # "buffer"
  /\ upl.verdict \in {"limit", "empty"}
  /\ upl.tempFile = "removed"

\* C15: a generateAIInsight request that finds its dataset pending,
\* processing or failed is answered with the precondition error and creates
\* no Insight; every AI-generated Insight goes back to a request that had
\* loaded its dataset as completed.
C15_InsightNeedsCompleted ==
  /\ [][\A d \in Ids :
          (/\ gen.pc = "idle" /\ gen' # gen
           /\ datasets[d].exists /\ gen'.ds = d
           /\ Status(d) \in {"pending", "processing", "failed"})
          => gen'.answer = "precondition" /\ gen'.pc = "idle"
             /\ insights' = insights]_vars
  /\ [](\A i \in 1..Len(insights) :
          insights[i].aiGenerated => insights[i].checked = "completed")

\* C15 witness: a request for a failed dataset has been refused while an
\* insight generated earlier for the same dataset exists.
C15_Witness ==
  /\ gen.answer = "precondition"
  /\ gen.seen = "failed"
  /\ \E i \in 1..Len(insights) : insights[i].datasetId = gen.ds

\* The rows of a file that inference visits.
VisitedRows(file) ==
  CASE file.format = "csv" -> file.rows
    [] file.format = "json" -> SelectSeq(SelectedRows(file), LAMBDA r : r.object)
    [] OTHER -> sheet_to_json(file)

HasKey(row, key) == \E i \in 1..Len(row.fields) : row.fields[i].k = key

\* The tag every visited row produced for a column, in row order: a CSV
\* record produces one for every header, a JSON or Excel row for the keys it
\* carries.
RowTags(file, key) ==
  LET rows == SelectSeq(VisitedRows(file),
                        LAMBDA r : file.format = "csv" \/ HasKey(r, key))
  IN [i \in 1..Len(rows) |-> detectType(ValueOf(rows[i], key))]

NonNullTags(file, key) == SelectSeq(RowTags(file, key), LAMBDA t : ~IsNullTag(t))

\* The tags that the largest number of rows produced.
Leaders(tags) ==
  {t \in Range(tags) : \A u \in Range(tags) :
                          Occurrences(tags, u) <= Occurrences(tags, t)}

\* C16: a column with at least two distinct non-null tags, one of which was
\* produced by more rows than any other, is declared with that tag.
C16_MajorityTagWins ==
  inferred.done =>
    \A i \in 1..Len(inferred.columns) :
      LET tags == NonNullTags(sample, inferred.columns[i].name) IN
      Cardinality(Range(tags)) >= 2 /\ Cardinality(Leaders(tags)) = 1
      => inferred.columns[i].type \in Leaders(tags)

\* C17: a column whose highest row count is shared by two or more non-null
\* tags is declared string.
C17_TieGivesString ==
  inferred.done =>
    \A i \in 1..Len(inferred.columns) :
      LET tags == NonNullTags(sample, inferred.columns[i].name) IN
      Cardinality(Leaders(tags)) >= 2 => inferred.columns[i].type = "string"

\* The file without the fields that are tagged null (JSON and Excel, where a
\* row may leave a key out).
StripNulls(file) ==
  [file EXCEPT !.rows =
     [i \in 1..Len(file.rows) |->
        [file.rows[i] EXCEPT !.fields =
           SelectSeq(@, LAMBDA f : ~IsNullTag(detectType(f.v)))]]]

TypeOf(result, key) ==
  result.columns[CHOOSE i \in 1..Len(result.columns) :
                   result.columns[i].name = key].type

\* C18: a column is nullable exactly if some row produced the null tag for
\* it, and its type is the type the file has without its null values.
C18_NullableIffNullSeen ==
  inferred.done =>
    \A i \in 1..Len(inferred.columns) :
      LET col == inferred.columns[i]
          stripped == Process(StripNulls(sample))
      IN /\ col.nullable <=> (\E n \in 1..Len(RowTags(sample, col.name)) :
                                 IsNullTag(RowTags(sample, col.name)[n]))
         /\ (/\ sample.format # "csv"
             /\ \E n \in 1..Len(stripped.columns) :
                   stripped.columns[n].name = col.name)
            => col.type = TypeOf(stripped, col.name)

\* C18 witness: rows tagged null, integer, integer gave an integer column
\* that is nullable.
C18_Witness ==
  /\ inferred.done
  /\ \E i \in 1..Len(inferred.columns) :
       /\ RowTags(sample, inferred.columns[i].name) = <<"null", "integer", "integer">>
       /\ inferred.columns[i].type = "integer"
       /\ inferred.columns[i].nullable

\* C19: in JSON and Excel ingestion every key is listed once, and a column
\* whose key some visited row does not carry is nullable.
C19_MissingKeyIsNullable ==
  inferred.done /\ sample.format # "csv" =>
    /\ \A i, j \in 1..Len(inferred.columns) :
         inferred.columns[i].name = inferred.columns[j].name => i = j
    /\ \A i \in 1..Len(inferred.columns) :
         (\E n \in 1..Len(VisitedRows(sample)) :
             ~HasKey(VisitedRows(sample)[n], inferred.columns[i].name))
         => inferred.columns[i].nullable

\* The number of data rows of a file: the records of a CSV file, the
\* elements of the row collection of a JSON document, the rows of the sheet
\* that are not blank.
DataRows(file) ==
  CASE file.format = "csv" -> Len(file.rows)
    [] file.format = "json" /\ file.shape \in {"array", "wrapped"} -> Len(file.rows)
    [] file.format = "json" /\ file.shape = "single" -> 1
    [] file.format = "json" -> 0
    [] OTHER -> Cardinality({n \in 1..Len(file.rows) : file.rows[n].fields # <<>>})

RECURSIVE FirstSeen(_, _, _)
FirstSeen(names, rows, i) ==
  IF i > Len(rows) THEN names
  ELSE FirstSeen(names \o SelectSeq([n \in 1..Len(rows[i].fields) |-> rows[i].fields[n].k],
                                    LAMBDA k : k \notin Range(names)),
                 rows, i + 1)

NamesOf(file) ==
  IF file.format = "csv" THEN file.headers
  ELSE FirstSeen(<<>>, VisitedRows(file), 1)

\* C21: columns holds one descriptor per distinct column name of the file,
\* in first-seen order.
C21_ColumnsInFirstSeenOrder ==
  inferred.done =>
    [i \in 1..Len(inferred.columns) |-> inferred.columns[i].name] = NamesOf(sample)

\* C25: a column for which no row produced a tag other than null (every
\* row gave null, or no row was observed at all) is declared with type null.
C25_UnobservedColumnIsNull ==
  inferred.done =>
    \A i \in 1..Len(inferred.columns) :
      NonNullTags(sample, inferred.columns[i].name) = <<>>
      => inferred.columns[i].type = "null"

\* C27: a record that has been deleted never exists again, and the terminal
\* write of a job whose record is gone changes no record; a terminal write
\* changes no record but the job's own.
C27_DeletedStaysDeleted ==
  [][/\ \A d \in Ids :
          d < nextId /\ ~datasets[d].exists => ~datasets'[d].exists
     /\ \A j \in JobIds :
          \* the job's terminal write happens in this step
          jobs[j].pc = "write" /\ jobs'[j].pc = "done" =>
            /\ ~datasets[jobs[j].ds].exists => datasets' = datasets
            /\ \A e \in Ids : e # jobs[j].ds => datasets'[e] = datasets[e]]_vars

\* C27 witness: a job stands before its terminal write and its record has
\* been deleted since the job started.
C27_Witness ==
  \E j \in JobIds :
    /\ jobs[j].pc = "write"
    /\ jobs[j].ds < nextId
    /\ ~datasets[jobs[j].ds].exists

\* C28: the fileUrl of every existing record names stored bytes.
C28_FileUrlNamesStoredBytes ==
  \A d \in Ids :
    datasets[d].exists => storage[datasets[d].fileUrl] # "absent"

\* C29: the terminal write of a failed attempt leaves every field of every
\* record as it was, except processingStatus, errorMessage and lastModified
\* of the job's own record.
C29_FailureKeepsSchema ==
  [][LET \* a record without the three fields a failure update sends
         Kept(rec) ==
           [rec EXCEPT !.processingStatus = "failed", !.errorMessage = "",
                       !.lastModified = 0]
     IN \A j \in JobIds :
          jobs[j].pc = "write" /\ jobs'[j].pc = "done" /\ jobs[j].outcome # "ok" =>
            /\ \A d \in Ids : Kept(datasets'[d]) = Kept(datasets[d])
            /\ \A d \in Ids : d # jobs[j].ds => datasets'[d] = datasets[d]]_vars

\* C29 witness: a record whose earlier attempt stored the schema has been
\* marked failed by a later attempt and still holds that schema.
C29_Witness ==
  \E d \in Ids :
    /\ datasets[d].exists
    /\ datasets[d].processingStatus = "failed"
    /\ datasets[d].errorMessage # ""
    /\ datasets[d].columns = ParseResult.columns
    /\ datasets[d].rowCount = ParseResult.rowCount

C22_DetectTypeFollowsRules ==
  LET Classify(value) ==
        CASE value.js \in {"null", "undefined"} -> "null"
          [] value.js = "string" /\ value.empty -> "null"
          [] value.js = "boolean" -> "boolean"
          [] value.js = "number" /\ value.integral -> "integer"
          [] value.js = "number" /\ ~value.integral -> "float"
          [] value.js = "string" /\ ~value.empty /\ value.dateLike -> "date"
          [] value.js = "string" /\ ~value.empty /\ ~value.dateLike
               /\ value.numberLike /\ ~value.blank -> "number"
          [] value.js = "string" /\ ~value.empty /\ ~value.dateLike
               /\ ~(value.numberLike /\ ~value.blank) -> "string"
          [] value.js = "array" -> "array"
          [] value.js = "object" -> "object"
          [] OTHER -> "unknown"
  IN detected.done =>
       /\ Len(detected.tags) = Len(detected.values)
       /\ \A i \in 1..Len(detected.values) :
            detected.tags[i] = Classify(detected.values[i])

\* C24: for the CSV file name,age,signup_date with the rows Alice, Bob and
\* Cara, inference returns rowCount 3 and the columns name (string, not
\* nullable), age (integer, nullable), signup_date (date, nullable).
C24_PeopleFileSchema ==
  inferred.done /\ sample \in PeopleFiles =>
    /\ inferred.rowCount = 3
    /\ inferred.columns =
         <<[name |-> "name", type |-> "string", nullable |-> FALSE],
           [name |-> "age", type |-> "integer", nullable |-> TRUE],
           [name |-> "signup_date", type |-> "date", nullable |-> TRUE]>>

\* C23: ingestion scans the rows the selection rule names (the elements of
\* a root array; for a root object the elements of its first array-valued
\* property in key order, or the object itself as a single row when it has
\* none), and the preview returns the first limit rows of what ingestion
\* scanned (all of them when there are fewer, none when limit is not
\* positive).
C23_PreviewIsPrefixOfScan ==
  LET RuleRows(data) ==
        CASE data.root = "array" -> data.items
          [] data.root = "object" /\ ArrayProps(data) # <<>> ->
               ArrayProps(data)[1].v.items
          [] data.root = "object" /\ ArrayProps(data) = <<>> -> <<AsRow(data)>>
          [] OTHER -> <<>>
      FirstRows(rows, n) ==
        SubSeq(rows, 1, IF n < 0 THEN 0 ELSE IF n > Len(rows) THEN Len(rows) ELSE n)
  IN /\ scanned.done => scanned.rows = RuleRows(doc)
     /\ scanned.done /\ preview.done =>
          preview.rows = FirstRows(scanned.rows, preview.limit)

\* C30: no user gets more than maxRequests requests passed on within one
\* window; a request inside a window whose count is used up is answered 429
\* and leaves the count as it is; a request after resetTime (or the user's
\* first) is passed on and starts a window with count 1; a request changes
\* nothing about another user.
C30_RateLimitPerUser ==
  [][\A u \in 1..MaxUsers :
       \* the middleware handles a request of user u in this step
       now' = now /\ rate'.user = u =>
         LET entry == requestCounts[u]
             inWindow == entry.held /\ now <= entry.resetTime
         IN /\ rate'.passed[u] <= rate.maxRequests
            /\ inWindow /\ entry.count >= rate.maxRequests =>
                 rate'.answer = "429" /\ requestCounts'[u] = entry
            /\ inWindow /\ entry.count < rate.maxRequests =>
                 /\ rate'.answer = "next"
                 /\ requestCounts'[u] = [entry EXCEPT !.count = @ + 1]
            /\ ~inWindow =>
                 /\ rate'.answer = "next"
                 /\ requestCounts'[u] =
                      [held |-> TRUE, count |-> 1, resetTime |-> now + rate.windowMs]
            /\ \A v \in (1..MaxUsers) \ {u} :
                 /\ requestCounts'[v] = requestCounts[v]
                 /\ rate'.passed[v] = rate.passed[v]]_vars

\* C30 witness: in a user's second window the limit has been reached and the
\* next request was answered 429, while another user's window is open.
C30_Witness ==
  \E u \in (1..MaxUsers) :
    /\ rate.user = u
    /\ rate.answer = "429"
    /\ requestCounts[u].count = rate.maxRequests
    /\ rate.passed[u] = rate.maxRequests
    /\ rate.opened[u] = 2
    /\ \E v \in (1..MaxUsers) \ {u} : requestCounts[v].held
====
